---- MODULE Spec2Model ----
(***************************************************************************)
(* Model of ischema2tsv.py: a one-shot dump of a MySQL information schema   *)
(* as tab separated lines.                                                  *)
(*                                                                          *)
(* Python strings are sequences of one-character strings, so that the       *)
(* regular expression of ColumnDef, str.format and str.join are computed    *)
(* character by character.  A value that may be None (a NULL of the         *)
(* catalog) is a sequence of at most one string: None is <<>>, the string   *)
(* s is <<s>>.                                                              *)
(***************************************************************************)
EXTENDS Integers, Sequences, FiniteSets, TLC

VARIABLES db, pc, stdout, stderr, cnx, cursors, exc, tables, ti, columns, ci,
          output, column_usages, ui, arg

vars == <<db, pc, stdout, stderr, cnx, cursors, exc, tables, ti, columns, ci,
          output, column_usages, ui, arg>>

(***************************************************************************)
(* Bounds.                                                                  *)
(***************************************************************************)
\* columns per table in the catalogs explored
MaxColumns == 3
\* length of the declared types given to set_column_type on its own
MaxTypeLen == 5
\* number of constraint rows given to set_constraint on its own
MaxRows == 3
\* number of command line arguments given to main
MaxArgs == 2

(***************************************************************************)
(* Python values.                                                           *)
(***************************************************************************)
None == <<>>

Some(s) == <<s>>

\* str(x) as '{}'.format(x) renders it
Str(m) == IF m = None THEN <<"N", "o", "n", "e">> ELSE m[1]

RECURSIVE Join(_, _)
\* sep.join(fields)
Join(fields, sep) ==
    IF fields = <<>> THEN <<>>
    ELSE IF Len(fields) = 1 THEN fields[1]
    ELSE fields[1] \o sep \o Join(Tail(fields), sep)

TAB == <<"\t">>

EMPTY == <<>>

YES == <<"Y", "E", "S">>

NO == <<"N", "O">>

PRIMARY_KEY == <<"P", "R", "I", "M", "A", "R", "Y", " ", "K", "E", "Y">>

FOREIGN_KEY == <<"F", "O", "R", "E", "I", "G", "N", " ", "K", "E", "Y">>

UNIQUE == <<"U", "N", "I", "Q", "U", "E">>

BASE_TABLE == <<"B", "A", "S", "E", " ", "T", "A", "B", "L", "E">>

VIEW == <<"V", "I", "E", "W">>

Header ==
    Join(<< <<"T", "a", "b", "l", "e">>, <<"C", "o", "l", "u", "m", "n">>,
            <<"T", "y", "p", "e">>, <<"S", "i", "z", "e">>,
            <<"N", "u", "l", "l", "a", "b", "l", "e">>,
            <<"D", "e", "f", "a", "u", "l", "t">>,
            <<"P", "K", "E", "Y">>, <<"F", "K", "E", "Y">> >>, TAB)

(***************************************************************************)
(* The catalogs: the information schema of one database.                    *)
(***************************************************************************)
orders == <<"o", "r", "d", "e", "r", "s">>

customers == <<"c", "u", "s", "t", "o", "m", "e", "r", "s">>

v_orders == <<"v", "_", "o", "r", "d", "e", "r", "s">>

id == <<"i", "d">>

total == <<"t", "o", "t", "a", "l">>

customer_id == <<"c", "u", "s", "t", "o", "m", "e", "r", "_", "i", "d">>

note == <<"n", "o", "t", "e">>

name == <<"n", "a", "m", "e">>

int == <<"i", "n", "t">>

decimal_10_2 == <<"d", "e", "c", "i", "m", "a", "l", "(", "1", "0", ",", "2", ")">>

varchar_255 == <<"v", "a", "r", "c", "h", "a", "r", "(", "2", "5", "5", ")">>

text == <<"t", "e", "x", "t">>

\* information_schema.TABLES
TableUniverse ==
    { [TABLE_NAME |-> orders, TABLE_TYPE |-> BASE_TABLE],
      [TABLE_NAME |-> customers, TABLE_TYPE |-> BASE_TABLE],
      [TABLE_NAME |-> v_orders, TABLE_TYPE |-> VIEW] }

Col(t, c, pos, ty, nullable, default) ==
    [TABLE_NAME |-> t, COLUMN_NAME |-> c, ORDINAL_POSITION |-> pos,
     COLUMN_TYPE |-> ty, IS_NULLABLE |-> nullable, COLUMN_DEFAULT |-> default]

\* information_schema.COLUMNS
ColumnUniverse ==
    { Col(orders, id, 1, int, NO, None),
      Col(orders, total, 2, decimal_10_2, YES, Some(<<"0">>)),
      Col(orders, customer_id, 3, int, YES, None),
      Col(orders, note, 4, text, YES, None),
      Col(customers, id, 1, int, NO, None),
      Col(customers, name, 2, varchar_255, YES, Some(EMPTY)),
      Col(v_orders, id, 1, int, NO, Some(<<"0">>)),
      Col(v_orders, total, 2, decimal_10_2, YES, None) }

Con(t, n, ty, c, rt, rc) ==
    [TABLE_NAME |-> t, CONSTRAINT_NAME |-> n, CONSTRAINT_TYPE |-> ty,
     COLUMN_NAME |-> c, REFERENCED_TABLE_NAME |-> rt,
     REFERENCED_COLUMN_NAME |-> rc]

\* the single-column constraints a catalog may declare
ConstraintUniverse ==
    { Con(orders, <<"P">>, PRIMARY_KEY, id, None, None),
      Con(orders, <<"u">>, UNIQUE, total, None, None),
      Con(orders, <<"f">>, FOREIGN_KEY, customer_id, Some(customers), Some(id)),
      Con(customers, <<"P">>, PRIMARY_KEY, id, None, None) }

TableNames(T) == { t.TABLE_NAME : t \in T }

ColumnsOf(T, n) ==
    { c \in ColumnUniverse :
        c.TABLE_NAME \in TableNames(T) /\ c.ORDINAL_POSITION <= n }

HasColumn(T, n, t, c) ==
    \E x \in ColumnsOf(T, n) : x.TABLE_NAME = t /\ x.COLUMN_NAME = c

ValidConstraints(T, n) ==
    { k \in ConstraintUniverse :
        /\ HasColumn(T, n, k.TABLE_NAME, k.COLUMN_NAME)
        /\ k.REFERENCED_TABLE_NAME # None =>
             HasColumn(T, n, Str(k.REFERENCED_TABLE_NAME),
                       Str(k.REFERENCED_COLUMN_NAME)) }

Catalogs ==
    UNION { UNION { { [TABLES |-> T, COLUMNS |-> ColumnsOf(T, n),
                       CONSTRAINTS |-> C] :
                      C \in SUBSET ValidConstraints(T, n) } :
                    n \in 1..MaxColumns } :
            T \in SUBSET TableUniverse }

\* information_schema.KEY_COLUMN_USAGE: one row per column of a key
KEY_COLUMN_USAGE(d) ==
    { [TABLE_NAME |-> k.TABLE_NAME, CONSTRAINT_NAME |-> k.CONSTRAINT_NAME,
       COLUMN_NAME |-> k.COLUMN_NAME,
       REFERENCED_TABLE_NAME |-> k.REFERENCED_TABLE_NAME,
       REFERENCED_COLUMN_NAME |-> k.REFERENCED_COLUMN_NAME] :
      k \in d.CONSTRAINTS }

\* information_schema.TABLE_CONSTRAINTS: one row per constraint
TABLE_CONSTRAINTS(d) ==
    { [TABLE_NAME |-> k.TABLE_NAME, CONSTRAINT_NAME |-> k.CONSTRAINT_NAME,
       CONSTRAINT_TYPE |-> k.CONSTRAINT_TYPE] : k \in d.CONSTRAINTS }

\* the orders in which a query without ORDER BY may return the rows S
Perms(S) ==
    { p \in [1..Cardinality(S) -> S] :
        \A i, j \in 1..Cardinality(S) : p[i] = p[j] => i = j }

RECURSIVE SortBy(_)
\* the rows S (records with ORDINAL_POSITION) in ORDER BY ORDINAL_POSITION
SortBy(S) ==
    IF S = {} THEN <<>>
    ELSE LET m == CHOOSE x \in S :
                    \A y \in S : x.ORDINAL_POSITION <= y.ORDINAL_POSITION
         IN <<m>> \o SortBy(S \ {m})

(***************************************************************************)
(* Catalog Query Layer: the rows each query selects.                        *)
(***************************************************************************)
\* find_by_table_schema without the TABLE_TYPE condition
find_by_table_schema_any_type(d) == { <<t.TABLE_NAME>> : t \in d.TABLES }

\* TableDao: SELECT TABLE_NAME ... WHERE TABLE_TYPE = 'BASE TABLE'
find_by_table_schema(d) ==
    { <<t.TABLE_NAME>> : t \in { x \in d.TABLES : x.TABLE_TYPE = BASE_TABLE } }

\* find_by_table_schema_and_table_name with ORDER BY ... DESC
find_by_table_schema_and_table_name_desc(d, table_name) ==
    LET row(c) == <<c.COLUMN_NAME, c.COLUMN_DEFAULT, c.IS_NULLABLE,
                    c.COLUMN_TYPE>>
        asc == SortBy({ c \in d.COLUMNS : c.TABLE_NAME = table_name })
    IN [i \in 1..Len(asc) |-> row(asc[Len(asc) + 1 - i])]

\* ColumnDao: the columns of a table, ORDER BY C.ORDINAL_POSITION
find_by_table_schema_and_table_name(d, table_name) ==
    LET row(c) == <<c.COLUMN_NAME, c.COLUMN_DEFAULT, c.IS_NULLABLE,
                    c.COLUMN_TYPE>>
        asc == SortBy({ c \in d.COLUMNS : c.TABLE_NAME = table_name })
    IN [i \in 1..Len(asc) |-> row(asc[i])]

\* the T side of a KEY_COLUMN_USAGE row that no TABLE_CONSTRAINTS row joins
NullConstraint == [CONSTRAINT_TYPE |-> None]

\* KeyColumnUsageDao: K LEFT JOIN T ON the schema and the table name only,
\* WHERE K is a key-usage row of the column; the pairs <<K row, T row>>
find_by_table_schema_and_table_name_and_column_name(d, table_name, column_name) ==
    LET K == { k \in KEY_COLUMN_USAGE(d) :
                 k.TABLE_NAME = table_name /\ k.COLUMN_NAME = column_name }
        T(k) == { [CONSTRAINT_TYPE |-> Some(x.CONSTRAINT_TYPE),
                   CONSTRAINT_NAME |-> x.CONSTRAINT_NAME] :
                  x \in { y \in TABLE_CONSTRAINTS(d) :
                            y.TABLE_NAME = k.TABLE_NAME } }
    IN UNION { IF T(k) = {} THEN { <<k, NullConstraint>> }
               ELSE { <<k, x>> : x \in T(k) } : k \in K }

\* SELECT T.CONSTRAINT_TYPE, K.REFERENCED_TABLE_NAME, K.REFERENCED_COLUMN_NAME
KeyUsageRow(p) ==
    <<p[2].CONSTRAINT_TYPE, p[1].REFERENCED_TABLE_NAME,
      p[1].REFERENCED_COLUMN_NAME>>

(***************************************************************************)
(* Column Descriptor Builder: class ColumnDef.                              *)
(***************************************************************************)
NoNewline(s, a, b) == \A k \in a..b : s[k] # "\n"

\* the position of the \) that $ follows: the last character, or the one
\* before a final newline; 0 when there is none
CloseParen(s) ==
    IF Len(s) >= 1 /\ s[Len(s)] = ")" THEN Len(s)
    ELSE IF Len(s) >= 2 /\ s[Len(s)] = "\n" /\ s[Len(s) - 1] = ")"
         THEN Len(s) - 1
         ELSE 0

\* the positions of the \( in the matches of '^(.+)\((.*)\)$'
OpenParens(s) ==
    { i \in 2..(CloseParen(s) - 1) :
        /\ s[i] = "("
        /\ NoNewline(s, 1, i - 1)
        /\ NoNewline(s, i + 1, CloseParen(s) - 1) }

\* column_type_pattern.match: <<>> for no match, else <<group 1, group 2>>;
\* the greedy (.+) takes the longest prefix a match allows
column_type_pattern(s) ==
    IF OpenParens(s) = {} THEN <<>>
    ELSE LET i == CHOOSE x \in OpenParens(s) : \A y \in OpenParens(s) : y <= x
         IN <<SubSeq(s, 1, i - 1), SubSeq(s, i + 1, CloseParen(s) - 1)>>

set_column_type(self, column_type) ==
    LET m == column_type_pattern(column_type)
    IN IF m # <<>>
       THEN [self EXCEPT !.column_type = m[1], !.column_size = m[2]]
       ELSE [self EXCEPT !.column_type = column_type, !.column_size = EMPTY]

\* ColumnDef.__init__ formatting the default instead of testing it for None
ColumnDef_str_default(table_name, column_name, column_type, is_nullable, column_default) ==
    [set_column_type([table_name |-> table_name, column_name |-> column_name,
                      column_type |-> EMPTY, column_size |-> EMPTY,
                      is_nullable |-> EMPTY, columun_default |-> EMPTY,
                      is_primary_key |-> EMPTY, foreign_key |-> EMPTY],
                     column_type)
     EXCEPT !.is_nullable = is_nullable,
            !.columun_default = Str(column_default),
            !.is_primary_key = EMPTY,
            !.foreign_key = EMPTY]

\* ColumnDef.__init__
ColumnDef(table_name, column_name, column_type, is_nullable, column_default) ==
    [set_column_type([table_name |-> table_name, column_name |-> column_name,
                      column_type |-> EMPTY, column_size |-> EMPTY,
                      is_nullable |-> EMPTY, columun_default |-> EMPTY,
                      is_primary_key |-> EMPTY, foreign_key |-> EMPTY],
                     column_type)
     EXCEPT !.is_nullable = is_nullable,
            !.columun_default =
                IF column_default # None THEN column_default[1] ELSE EMPTY,
            !.is_primary_key = EMPTY,
            !.foreign_key = EMPTY]

\* set_constraint keeping the first foreign key instead of the last
set_constraint_first_wins(self, constraint_type, table_name, column_name) ==
    IF constraint_type = Some(PRIMARY_KEY)
    THEN [self EXCEPT !.is_primary_key = YES]
    ELSE IF constraint_type = Some(FOREIGN_KEY) /\ self.foreign_key = EMPTY
         THEN [self EXCEPT !.foreign_key =
                   Str(table_name) \o <<".">> \o Str(column_name)]
         ELSE self

set_constraint(self, constraint_type, table_name, column_name) ==
    IF constraint_type = Some(PRIMARY_KEY)
    THEN [self EXCEPT !.is_primary_key = YES]
    ELSE IF constraint_type = Some(FOREIGN_KEY)
         THEN [self EXCEPT !.foreign_key =
                   Str(table_name) \o <<".">> \o Str(column_name)]
         ELSE self

to_tuple(self) ==
    <<self.table_name, self.column_name, self.column_type, self.column_size,
      self.is_nullable, self.columun_default, self.is_primary_key,
      self.foreign_key>>

(***************************************************************************)
(* The command line: create_argparser().parse_args().                       *)
(***************************************************************************)
OPT_HELP == <<"-", "h">>

OPT_UNKNOWN == <<"-", "x">>

shop == <<"s", "h", "o", "p">>

\* the command lines explored: sys.argv[1:]
Argvs == UNION { [1..n -> {OPT_HELP, OPT_UNKNOWN, shop}] : n \in 0..MaxArgs }

\* the usage lines of the parser
Usage ==
    << <<"u", "s", "a", "g", "e", ":", " ", "i", "s", "c", "h", "e", "m", "a",
         "2", "t", "s", "v", ".", "p", "y", " ", "[", "-", "h", "]", " ", "[",
         "-", "u", " ", "U", "S", "E", "R", "]", " ", "[", "-", "p", " ", "P",
         "A", "S", "S", "W", "O", "R", "D", "]", " ", "[", "-", "P", " ", "P",
         "O", "R", "T", "]", " ", "[", "-", "H", " ", "H", "O", "S", "T", "]">>,
       <<" ", " ", " ", " ", " ", " ", " ", " ", " ", " ", " ", " ", " ", " ",
         " ", " ", " ", " ", " ", " ", " ", " ", "d", "a", "t", "a", "b", "a",
         "s", "e">> >>

\* the lines that -h writes
Help ==
    Usage \o
    << <<>>,
       <<"D", "u", "m", "p", " ", "M", "y", "S", "Q", "L", " ", "i", "n", "f",
         "o", "r", "m", "a", "t", "i", "o", "n", " ", "s", "c", "h", "e", "m",
         "a", ".">>,
       <<>>,
       <<"p", "o", "s", "i", "t", "i", "o", "n", "a", "l", " ", "a", "r", "g",
         "u", "m", "e", "n", "t", "s", ":">>,
       <<" ", " ", "d", "a", "t", "a", "b", "a", "s", "e", " ", " ", " ", " ",
         " ", " ", " ", " ", " ", " ", " ", " ", " ", " ", "d", "a", "t", "a",
         "b", "a", "s", "e", " ", "n", "a", "m", "e">>,
       <<>>,
       <<"o", "p", "t", "i", "o", "n", "s", ":">>,
       <<" ", " ", "-", "h", ",", " ", "-", "-", "h", "e", "l", "p", " ", " ",
         " ", " ", " ", " ", " ", " ", " ", " ", " ", " ", "s", "h", "o", "w",
         " ", "t", "h", "i", "s", " ", "h", "e", "l", "p", " ", "m", "e", "s",
         "s", "a", "g", "e", " ", "a", "n", "d", " ", "e", "x", "i", "t">>,
       <<" ", " ", "-", "u", " ", "U", "S", "E", "R", ",", " ", "-", "-", "u",
         "s", "e", "r", " ", "U", "S", "E", "R", " ", " ", "u", "s", "e", "r",
         " ", "l", "o", "g", "i", "n", " ", "n", "a", "m", "e", " ", "(", "d",
         "e", "f", "a", "u", "l", "t", ":", " ", "c", "u", "r", "r", "e", "n",
         "t", " ", "u", "s", "e", "r", ")">>,
       <<" ", " ", "-", "p", " ", "P", "A", "S", "S", "W", "O", "R", "D", ",",
         " ", "-", "-", "p", "a", "s", "s", "w", "o", "r", "d", " ", "P", "A",
         "S", "S", "W", "O", "R", "D">>,
       <<" ", " ", " ", " ", " ", " ", " ", " ", " ", " ", " ", " ", " ", " ",
         " ", " ", " ", " ", " ", " ", " ", " ", " ", " ", "u", "s", "e", "r",
         " ", "p", "a", "s", "s", "w", "o", "r", "d", " ", "(", "d", "e", "f",
         "a", "u", "l", "t", ":", "e", "m", "p", "t", "y", ")">>,
       <<" ", " ", "-", "P", " ", "P", "O", "R", "T", ",", " ", "-", "-", "p",
         "o", "r", "t", " ", "P", "O", "R", "T", " ", " ", "p", "o", "r", "t",
         " ", "n", "u", "m", "b", "e", "r", " ", "(", "d", "e", "f", "a", "u",
         "l", "t", ":", "3", "3", "0", "6", ")">>,
       <<" ", " ", "-", "H", " ", "H", "O", "S", "T", ",", " ", "-", "-", "h",
         "o", "s", "t", " ", "H", "O", "S", "T", " ", " ", "h", "o", "s", "t",
         "n", "a", "m", "e", " ", "(", "d", "e", "f", "a", "u", "l", "t", ":",
         "l", "o", "c", "a", "l", "h", "o", "s", "t", ")">> >>

ErrorPrefix ==
    <<"i", "s", "c", "h", "e", "m", "a", "2", "t", "s", "v", ".", "p", "y",
      ":", " ", "e", "r", "r", "o", "r", ":", " ">>

RequiredDatabase ==
    <<"t", "h", "e", " ", "f", "o", "l", "l", "o", "w", "i", "n", "g", " ",
      "a", "r", "g", "u", "m", "e", "n", "t", "s", " ", "a", "r", "e", " ",
      "r", "e", "q", "u", "i", "r", "e", "d", ":", " ", "d", "a", "t", "a",
      "b", "a", "s", "e">>

Unrecognized ==
    <<"u", "n", "r", "e", "c", "o", "g", "n", "i", "z", "e", "d", " ", "a",
      "r", "g", "u", "m", "e", "n", "t", "s", ":", " ">>

\* s without its element at position i
Without(s, i) == SubSeq(s, 1, i - 1) \o SubSeq(s, i + 1, Len(s))

\* parse_args on a command line of -h, an option the parser does not
\* declare, and positional words: -h exits with the help text, otherwise
\* the first positional is the database and every other word is an error
parse_args(argv) ==
    IF \E i \in 1..Len(argv) : argv[i] = OPT_HELP
    THEN [exit |-> "SystemExit(0)", out |-> Help, err |-> <<>>]
    ELSE IF \A i \in 1..Len(argv) : argv[i][1] = "-"
    THEN [exit |-> "SystemExit(2)", out |-> <<>>,
          err |-> Usage \o <<ErrorPrefix \o RequiredDatabase>>]
    ELSE LET d == CHOOSE i \in 1..Len(argv) :
                    /\ argv[i][1] # "-"
                    /\ \A j \in 1..(i - 1) : argv[j][1] = "-"
         IN IF Len(argv) > 1
            THEN [exit |-> "SystemExit(2)", out |-> <<>>,
                  err |-> Usage \o <<ErrorPrefix \o Unrecognized
                                       \o Join(Without(argv, d), <<" ">>)>>]
            ELSE [exit |-> "none", out |-> <<>>, err |-> <<>>]

(***************************************************************************)
(* Report Driver: main, one action per step.                                *)
(***************************************************************************)
NoOutput ==
    [table_name |-> EMPTY, column_name |-> EMPTY, column_type |-> EMPTY,
     column_size |-> EMPTY, is_nullable |-> EMPTY, columun_default |-> EMPTY,
     is_primary_key |-> EMPTY, foreign_key |-> EMPTY]

Init ==
    /\ db \in Catalogs
    /\ pc = "start"
    /\ stdout = <<>>
    /\ stderr = <<>>
    /\ cnx = "unassigned"
    /\ cursors = <<>>
    /\ exc = "none"
    /\ tables = <<>>
    /\ ti = 0
    /\ columns = <<>>
    /\ ci = 0
    /\ output = NoOutput
    /\ column_usages = <<>>
    /\ ui = 0
    /\ arg \in Argvs

OpenCursor(dao) == Append(cursors, [dao |-> dao, closed |-> FALSE])

\* cursor.close() on the cursor opened last
CloseCursor(cs) == [cs EXCEPT ![Len(cs)].closed = TRUE]

\* the finally clause of TableDao.find_by_table_schema: `cursor.close` names
\* the method and does not call it
TableDao_finally(cs) == cs

ColumnDao_finally(cs) == CloseCursor(cs)

KeyColumnUsageDao_finally(cs) == CloseCursor(cs)

\* args = create_argparser().parse_args(): SystemExit after the help text
\* on standard output or the usage and an error on standard error, or the
\* arguments of the run
ParseArgs ==
    /\ pc = "start"
    /\ stdout' = stdout \o parse_args(arg).out
    /\ stderr' = stderr \o parse_args(arg).err
    /\ exc' = parse_args(arg).exit
    /\ pc' = IF parse_args(arg).exit = "none" THEN "header" ELSE "exit"
    /\ UNCHANGED <<db, cnx, cursors, tables, ti, columns, ci, output,
                   column_usages, ui, arg>>

\* print of the header line
EmitHeader ==
    /\ pc = "header"
    /\ stdout' = Append(stdout, Header)
    /\ pc' = "connect"
    /\ UNCHANGED <<db, stderr, cnx, cursors, exc, tables, ti, columns, ci, output,
                   column_usages, ui, arg>>

\* create_connection up to its yield: connect returns a connection
ConnectOk ==
    /\ pc = "connect"
    /\ cnx' = "open"
    /\ pc' = "table_query"
    /\ UNCHANGED <<db, stderr, stdout, cursors, exc, tables, ti, columns, ci, output,
                   column_usages, ui, arg>>

\* connect raises: cnx is never assigned and the finally clause runs
ConnectFail ==
    /\ pc = "connect"
    /\ exc' = "ConnectError"
    /\ pc' = "cnx_finally"
    /\ UNCHANGED <<db, stderr, stdout, cnx, cursors, tables, ti, columns, ci, output,
                   column_usages, ui, arg>>

\* the finally clause of create_connection: cnx.close()
ConnectionFinally ==
    /\ pc = "cnx_finally"
    /\ IF cnx = "unassigned"
       THEN /\ exc' = "UnboundLocalError"
            /\ cnx' = cnx
       ELSE /\ cnx' = "closed"
            /\ exc' = exc
    /\ pc' = "done"
    /\ UNCHANGED <<db, stderr, stdout, cursors, tables, ti, columns, ci, output,
                   column_usages, ui, arg>>

\* with TableDao.find_by_table_schema(...): cnx.cursor() and execute.
\* execute raises inside the try, so the finally clause runs on the new
\* cursor; cnx.cursor() raises before the try, so there is no cursor and no
\* finally clause
TableQuery ==
    /\ pc = "table_query"
    /\ \/ /\ cursors' = OpenCursor("TableDao")
          /\ pc' = "table_fetch"
          /\ exc' = exc
       \/ /\ cursors' = TableDao_finally(OpenCursor("TableDao"))
          /\ exc' = "QueryError"
          /\ pc' = "cnx_finally"
       \/ /\ cursors' = cursors
          /\ exc' = "QueryError"
          /\ pc' = "cnx_finally"
    /\ UNCHANGED <<db, stderr, stdout, cnx, tables, ti, columns, ci, output,
                   column_usages, ui, arg>>

\* tables = cursor.fetchall() and the end of the with block
TableFetch ==
    /\ pc = "table_fetch"
    /\ cursors' = TableDao_finally(cursors)
    /\ \/ /\ tables' \in Perms(find_by_table_schema(db))
          /\ ti' = 0
          /\ pc' = "table_loop"
          /\ exc' = exc
       \/ /\ exc' = "QueryError"
          /\ pc' = "cnx_finally"
          /\ UNCHANGED <<tables, ti>>
    /\ UNCHANGED <<db, stderr, stdout, cnx, columns, ci, output, column_usages, ui,
                   arg>>

\* for tables_row in tables: the next table, or the end of the loop
TableLoop ==
    /\ pc = "table_loop"
    /\ pc' = IF ti < Len(tables) THEN "column_query" ELSE "cnx_finally"
    /\ UNCHANGED <<db, stderr, stdout, cnx, cursors, exc, tables, ti, columns, ci,
                   output, column_usages, ui, arg>>

\* with ColumnDao.find_by_table_schema_and_table_name(...): cnx.cursor() and
\* execute, with the same three outcomes
ColumnQuery ==
    /\ pc = "column_query"
    /\ \/ /\ cursors' = OpenCursor("ColumnDao")
          /\ pc' = "column_fetch"
          /\ exc' = exc
       \/ /\ cursors' = ColumnDao_finally(OpenCursor("ColumnDao"))
          /\ exc' = "QueryError"
          /\ pc' = "cnx_finally"
       \/ /\ cursors' = cursors
          /\ exc' = "QueryError"
          /\ pc' = "cnx_finally"
    /\ UNCHANGED <<db, stderr, stdout, cnx, tables, ti, columns, ci, output,
                   column_usages, ui, arg>>

\* columns = cursor.fetchall() and the end of the with block
ColumnFetch ==
    /\ pc = "column_fetch"
    /\ cursors' = ColumnDao_finally(cursors)
    /\ \/ /\ columns' =
                find_by_table_schema_and_table_name(db, tables[ti + 1][1])
          /\ ci' = 0
          /\ pc' = "column_loop"
          /\ exc' = exc
       \/ /\ exc' = "QueryError"
          /\ pc' = "cnx_finally"
          /\ UNCHANGED <<columns, ci>>
    /\ UNCHANGED <<db, stderr, stdout, cnx, tables, ti, output, column_usages, ui,
                   arg>>

\* for (...) in columns: output = ColumnDef(...), or the end of the loop
ColumnLoop ==
    /\ pc = "column_loop"
    /\ IF ci < Len(columns)
       THEN /\ output' = ColumnDef(tables[ti + 1][1], columns[ci + 1][1],
                                   columns[ci + 1][4], columns[ci + 1][3],
                                   columns[ci + 1][2])
            /\ pc' = "key_query"
            /\ ti' = ti
       ELSE /\ ti' = ti + 1
            /\ pc' = "table_loop"
            /\ output' = output
    /\ UNCHANGED <<db, stderr, stdout, cnx, cursors, exc, tables, columns, ci,
                   column_usages, ui, arg>>

\* with KeyColumnUsageDao.find_by_table_schema_and_table_name_and_column_name:
\* cnx.cursor() and execute, with the same three outcomes
KeyQuery ==
    /\ pc = "key_query"
    /\ \/ /\ cursors' = OpenCursor("KeyColumnUsageDao")
          /\ pc' = "key_fetch"
          /\ exc' = exc
       \/ /\ cursors' = KeyColumnUsageDao_finally(OpenCursor("KeyColumnUsageDao"))
          /\ exc' = "QueryError"
          /\ pc' = "cnx_finally"
       \/ /\ cursors' = cursors
          /\ exc' = "QueryError"
          /\ pc' = "cnx_finally"
    /\ UNCHANGED <<db, stderr, stdout, cnx, tables, ti, columns, ci, output,
                   column_usages, ui, arg>>

\* column_usages = cursor.fetchall() and the end of the with block
KeyFetch ==
    /\ pc = "key_fetch"
    /\ cursors' = KeyColumnUsageDao_finally(cursors)
    /\ \/ /\ \E p \in Perms(find_by_table_schema_and_table_name_and_column_name(
                                db, tables[ti + 1][1], columns[ci + 1][1])) :
                column_usages' = [i \in 1..Len(p) |-> KeyUsageRow(p[i])]
          /\ ui' = 0
          /\ pc' = "usage_loop"
          /\ exc' = exc
       \/ /\ exc' = "QueryError"
          /\ pc' = "cnx_finally"
          /\ UNCHANGED <<column_usages, ui>>
    /\ UNCHANGED <<db, stderr, stdout, cnx, tables, ti, columns, ci, output, arg>>

\* for (...) in column_usages: output.set_constraint(...)
UsageLoop ==
    /\ pc = "usage_loop"
    /\ ui < Len(column_usages)
    /\ output' = set_constraint(output, column_usages[ui + 1][1],
                                column_usages[ui + 1][2],
                                column_usages[ui + 1][3])
    /\ ui' = ui + 1
    /\ UNCHANGED <<db, stderr, pc, stdout, cnx, cursors, exc, tables, ti, columns, ci,
                   column_usages, arg>>

\* print('\t'.join(output.to_tuple())) once the rows are exhausted
EmitLine ==
    /\ pc = "usage_loop"
    /\ ui = Len(column_usages)
    /\ stdout' = Append(stdout, Join(to_tuple(output), TAB))
    /\ ci' = ci + 1
    /\ pc' = "column_loop"
    /\ UNCHANGED <<db, stderr, cnx, cursors, exc, tables, ti, columns, output,
                   column_usages, ui, arg>>

Next ==
    \/ ParseArgs
    \/ EmitHeader
    \/ ConnectOk
    \/ ConnectFail
    \/ ConnectionFinally
    \/ TableQuery
    \/ TableFetch
    \/ TableLoop
    \/ ColumnQuery
    \/ ColumnFetch
    \/ ColumnLoop
    \/ KeyQuery
    \/ KeyFetch
    \/ UsageLoop
    \/ EmitLine

Spec == Init /\ [][Next]_vars

(***************************************************************************)
(* ColumnDef.set_column_type on its own, over every declared type of up to  *)
(* MaxTypeLen characters.                                                   *)
(***************************************************************************)
TypeChars == {"a", "(", ")"}

TypeStrings == UNION { [1..n -> TypeChars] : n \in 0..MaxTypeLen }

NoCatalog == [TABLES |-> {}, COLUMNS |-> {}, CONSTRAINTS |-> {}]

InitType ==
    /\ db = NoCatalog
    /\ pc = "set_column_type"
    /\ arg \in TypeStrings
    /\ output = NoOutput
    /\ stdout = <<>>
    /\ stderr = <<>>
    /\ cnx = "unassigned"
    /\ cursors = <<>>
    /\ exc = "none"
    /\ tables = <<>>
    /\ ti = 0
    /\ columns = <<>>
    /\ ci = 0
    /\ column_usages = <<>>
    /\ ui = 0

\* self.set_column_type(column_type)
SetColumnType ==
    /\ pc = "set_column_type"
    /\ output' = set_column_type(output, arg)
    /\ pc' = "column_type_set"
    /\ UNCHANGED <<db, stderr, stdout, cnx, cursors, exc, tables, ti, columns, ci,
                   column_usages, ui, arg>>

NextType == SetColumnType

SpecType == InitType /\ [][NextType]_vars

(***************************************************************************)
(* ColumnDef.set_constraint on its own, over every sequence of up to        *)
(* MaxRows constraint rows: the loop of main over column_usages.            *)
(***************************************************************************)
ConstraintRows ==
    { <<ct, r[1], r[2]>> :
        ct \in {None, Some(PRIMARY_KEY), Some(FOREIGN_KEY), Some(UNIQUE)},
        r \in { <<None, None>>, <<Some(customers), Some(id)>>,
                <<Some(orders), Some(id)>> } }

InitConstraint ==
    /\ db = NoCatalog
    /\ pc = "usage_loop"
    /\ column_usages \in UNION { [1..n -> ConstraintRows] : n \in 0..MaxRows }
    /\ ui = 0
    /\ \E d \in {None, Some(<<"0">>)} :
         output = ColumnDef(orders, customer_id, int, YES, d)
    /\ arg = <<>>
    /\ stdout = <<>>
    /\ stderr = <<>>
    /\ cnx = "unassigned"
    /\ cursors = <<>>
    /\ exc = "none"
    /\ tables = <<>>
    /\ ti = 0
    /\ columns = <<>>
    /\ ci = 0

NextConstraint == UsageLoop

SpecConstraint == InitConstraint /\ [][NextConstraint]_vars

(***************************************************************************)
(* Reading the output back.                                                 *)
(***************************************************************************)
RECURSIVE Split(_, _)
\* the fields of a line, separated by the character sep
Split(s, sep) ==
    IF \A k \in 1..Len(s) : s[k] # sep THEN <<s>>
    ELSE LET i == CHOOSE k \in 1..Len(s) :
                    s[k] = sep /\ \A j \in 1..(k - 1) : s[j] # sep
         IN <<SubSeq(s, 1, i - 1)>> \o Split(SubSeq(s, i + 1, Len(s)), sep)

\* the eight fields of the n-th data line (the line after n earlier ones)
Fields(n) == Split(stdout[n + 1], "\t")

\* the lines after the header line
DataLines ==
    IF stdout # <<>> /\ stdout[1] = Header THEN 1..(Len(stdout) - 1) ELSE {}

BaseTableNames == { t.TABLE_NAME : t \in { x \in db.TABLES : x.TABLE_TYPE = BASE_TABLE } }

\* the catalog's row of the column a data line is about
ColumnRow(n) ==
    CHOOSE c \in db.COLUMNS :
        c.TABLE_NAME = Fields(n)[1] /\ c.COLUMN_NAME = Fields(n)[2]

ConstraintsOn(n, type) ==
    { k \in db.CONSTRAINTS :
        /\ k.TABLE_NAME = Fields(n)[1]
        /\ k.COLUMN_NAME = Fields(n)[2]
        /\ k.CONSTRAINT_TYPE = type }

(***************************************************************************)
(* Properties.                                                              *)
(***************************************************************************)
\* C1: when connecting fails the run has written nothing to standard
\* output, not even the header line, at the moment of the failure.
C1_NoOutputBeforeConnectFailure ==
    exc = "ConnectError" => stdout = <<>>

\* the cursor of the with block the run is inside, if any
InWithBlock(i) ==
    i = Len(cursors) /\ pc \in {"table_fetch", "column_fetch", "key_fetch"}

\* C2: every cursor is closed once its with block is left, and when the run
\* ends, normally or on an error, the connection and every cursor are closed.
C2_EveryResourceReleased ==
    /\ \A i \in 1..Len(cursors) : ~InWithBlock(i) => cursors[i].closed
    /\ pc = "done" => cnx # "open"

\* C3: a run that completes without error has printed, after the header, as
\* many lines as the base tables of the catalog have columns, one per column.
C3_RowCount ==
    (pc = "done" /\ exc = "none") =>
        /\ Len(stdout) - 1 =
             Cardinality({ c \in db.COLUMNS : c.TABLE_NAME \in BaseTableNames })
        /\ \A c \in db.COLUMNS :
             c.TABLE_NAME \in BaseTableNames =>
               Cardinality({ n \in DataLines :
                               /\ Fields(n)[1] = c.TABLE_NAME
                               /\ Fields(n)[2] = c.COLUMN_NAME }) = 1

\* a completed run over base tables and a view, where a column had several
\* constraint rows
C3_Witness ==
    /\ pc = "done"
    /\ exc = "none"
    /\ Len(stdout) - 1 = 4
    /\ v_orders \in TableNames(db.TABLES)
    /\ Len(column_usages) >= 2

\* C4: the PKEY field of every printed column is "YES" if the column belongs
\* to a PRIMARY KEY constraint of its table and "" otherwise.
C4_PrimaryKeyField ==
    \A n \in DataLines :
        Fields(n)[7] = IF ConstraintsOn(n, PRIMARY_KEY) # {} THEN YES ELSE EMPTY

\* C5: the FKEY field of every printed column is "R.c" if the column is the
\* referencing column of a foreign key to R.c and "" if it takes part in no
\* foreign key.
C5_ForeignKeyField ==
    \A n \in DataLines :
        IF ConstraintsOn(n, FOREIGN_KEY) = {}
        THEN Fields(n)[8] = EMPTY
        ELSE \E k \in ConstraintsOn(n, FOREIGN_KEY) :
               Fields(n)[8] = k.REFERENCED_TABLE_NAME[1] \o <<".">>
                                \o k.REFERENCED_COLUMN_NAME[1]

RECURSIVE ExpectedPairs(_)
\* the <<table, column>> pairs of the tables ts, table after table, the
\* columns of a table by declaration position
ExpectedPairs(ts) ==
    IF ts = <<>> THEN <<>>
    ELSE LET cs == { c \in db.COLUMNS : c.TABLE_NAME = ts[1][1] }
         IN [k \in 1..Cardinality(cs) |->
               LET c == CHOOSE x \in cs :
                          Cardinality({ y \in cs : y.ORDINAL_POSITION
                                                    < x.ORDINAL_POSITION }) = k - 1
               IN <<c.TABLE_NAME, c.COLUMN_NAME>>]
            \o ExpectedPairs(Tail(ts))

\* C6: standard output is the header line, then the lines of the tables in
\* the order the table query returned them and, within a table, in
\* declaration order; at every moment of a run whose arguments parsed the
\* output is a prefix of that, and a completed run has printed all of it
\* (the header alone without base tables).
C6_OutputOrder ==
    /\ (pc # "exit" /\ stdout # <<>>) => stdout[1] = Header
    /\ pc # "exit" => Len(stdout) - 1 <= Len(ExpectedPairs(tables))
    /\ \A n \in DataLines :
         <<Fields(n)[1], Fields(n)[2]>> = ExpectedPairs(tables)[n]
    /\ (pc = "done" /\ exc = "none") =>
         Len(stdout) = 1 + Len(ExpectedPairs(tables))

\* a completed run over two tables, the second of the catalog's first
C6_Witness ==
    /\ pc = "done"
    /\ exc = "none"
    /\ tables = << <<orders>>, <<customers>> >>
    /\ Len(stdout) = 6

\* a completed run over a schema without base tables
C6_WitnessEmpty ==
    /\ pc = "done"
    /\ exc = "none"
    /\ tables = <<>>
    /\ stdout = <<Header>>

\* the declared type arg has the form X(Y) with X the non-empty base type
\* that ends at position i - 1, before the first parenthesis
HasForm(i) ==
    /\ 2 <= i
    /\ i < Len(arg)
    /\ arg[i] = "("
    /\ arg[Len(arg)] = ")"
    /\ \A k \in 1..(i - 1) : arg[k] \notin {"(", ")"}

\* C7: a declared type X(Y) is split into column_type X and column_size Y,
\* whatever Y contains; a declared type without parentheses is kept whole
\* with an empty column_size.
C7_TypeSplit ==
    pc = "column_type_set" =>
        /\ \A i \in 1..Len(arg) :
             HasForm(i) =>
               /\ output.column_type = SubSeq(arg, 1, i - 1)
               /\ output.column_size = SubSeq(arg, i + 1, Len(arg) - 1)
        /\ (\A k \in 1..Len(arg) : arg[k] \notin {"(", ")"}) =>
               /\ output.column_type = arg
               /\ output.column_size = EMPTY

\* C8: the Default field of every printed column is "" when the catalog
\* default is absent and the catalog default itself otherwise, whatever
\* constraint rows and declared type the column has.
C8_DefaultField ==
    \A n \in DataLines :
        Fields(n)[6] = IF ColumnRow(n).COLUMN_DEFAULT = None THEN EMPTY
                       ELSE ColumnRow(n).COLUMN_DEFAULT[1]

\* lines printed for an absent default, a default of "0" and a default of ""
C8_Witness ==
    /\ pc = "done"
    /\ \E n \in DataLines :
         ColumnRow(n).COLUMN_DEFAULT = None /\ Fields(n)[6] = EMPTY
    /\ \E n \in DataLines :
         /\ ColumnRow(n).COLUMN_DEFAULT = Some(<<"0">>)
         /\ Fields(n)[6] = <<"0">>
         /\ Fields(n)[7] = YES
    /\ \E n \in DataLines :
         /\ ColumnRow(n).COLUMN_DEFAULT = Some(EMPTY)
         /\ Fields(n)[6] = EMPTY
         /\ Fields(n)[3] = <<"v", "a", "r", "c", "h", "a", "r">>

\* the rows among the first n of column_usages with the constraint type
RowsOfType(n, type) == { i \in 1..n : column_usages[i][1] = Some(type) }

\* C9: after any number of constraint rows, foreign_key is built from the
\* last FOREIGN KEY row applied ("" before the first), is_primary_key is "YES"
\* iff some row applied is PRIMARY KEY, and so a row of another type changes
\* neither.
C9_LastForeignKeyWins ==
    pc = "usage_loop" =>
        /\ output.is_primary_key =
             IF RowsOfType(ui, PRIMARY_KEY) # {} THEN YES ELSE EMPTY
        /\ output.foreign_key =
             IF RowsOfType(ui, FOREIGN_KEY) = {} THEN EMPTY
             ELSE LET l == CHOOSE i \in RowsOfType(ui, FOREIGN_KEY) :
                             \A j \in RowsOfType(ui, FOREIGN_KEY) : j <= i
                  IN Str(column_usages[l][2]) \o <<".">>
                       \o Str(column_usages[l][3])

\* two FOREIGN KEY rows around a PRIMARY KEY row, then a UNIQUE row: the
\* second reference is the one kept
C9_Witness ==
    /\ pc = "usage_loop"
    /\ ui = 3
    /\ column_usages[1] = <<Some(FOREIGN_KEY), Some(customers), Some(id)>>
    /\ column_usages[2] = <<Some(PRIMARY_KEY), None, None>>
    /\ column_usages[3] = <<Some(FOREIGN_KEY), Some(orders), Some(id)>>
    /\ output.foreign_key = orders \o <<".">> \o id
    /\ output.is_primary_key = YES

\* C10: when connect raises, close is not attempted on the unassigned
\* connection and the run ends with the connect failure itself.
C10_ConnectFailureSurfaces ==
    (pc = "done" /\ cnx = "unassigned") => exc = "ConnectError"

====
